---- MODULE Spec2Model ----
(***************************************************************************)
(* A model of the filter_and_copy tool of the photo MCP server             *)
(* (src/src/cli.ts): the tool handler, filterAndCopy's record loop, the    *)
(* filter dimensions and the string helpers they use.                      *)
(*                                                                         *)
(* JSON objects are records whose optional keys are present or not         *)
(* (Has(o, "key")); strings are TLA+ strings, compared by code unit as     *)
(* JavaScript compares them.  Latitudes and longitudes are in units of     *)
(* 1e-4 degree, distances and radius_m in millimetres, altitudes in        *)
(* metres, so that every number of the model is an integer.                *)
(***************************************************************************)
EXTENDS Integers, Sequences, FiniteSets, TLC

VARIABLES
    args,       \* the arguments the tool handler is called with
    tree,       \* the records exiftool finds under base_dir, in its order
    srcFs,      \* the source paths for which fsp.stat succeeds
    pc,         \* where the handler is: start, mkdir, index, loop, copy, done
    input,      \* filterAndCopy's input: the parsed arguments with base_dir
    outDir,     \* filterAndCopy's outDir
    items,      \* filterAndCopy's items
    i,          \* number of loop iterations started (position in items)
    scanned, matched, skipped, files,   \* filterAndCopy's locals
    copied,     \* history: the positions in items whose copyOne succeeded
    dirs,       \* the directories made by fsp.mkdir
    outFs,      \* the copies on disk: destination path -> source path copied
    lastLog,    \* what the last loop iteration decided: the skip it logs, or ok
    result      \* what the handler returned (or that it threw)

vars == <<args, tree, srcFs, pc, input, outDir, items, i, scanned, matched,
          skipped, files, copied, dirs, outFs, lastLog, result>>

-----------------------------------------------------------------------------
(* Bounds of the model. *)

\* The longest list of records exiftool returns.
MaxItems == 3

\* The longest prompt made of the characters of SlugAlphabet.
MaxPromptLen == 4

-----------------------------------------------------------------------------
(* Strings, as JavaScript handles them. *)

Has(o, k) == k \in DOMAIN o

Ch(s, k) == SubSeq(s, k, k)

Rest(s) == SubSeq(s, 2, Len(s))

\* The characters the model uses, in the order of their UTF-16 code units.
CharOrder == " !*-./0123456789:<>?ABCDEFGHIJKLMNOPQRSTUVWXYZ\\_abcdefghijklmnopqrstuvwxyz|~"

CodeUnit(c) == CHOOSE k \in 1..Len(CharOrder) : Ch(CharOrder, k) = c

\* a < b for two strings: the first differing code unit decides, a proper
\* prefix is smaller.
RECURSIVE StrLess(_, _)
StrLess(a, b) ==
    IF b = "" THEN FALSE
    ELSE IF a = "" THEN TRUE
    ELSE IF Ch(a, 1) = Ch(b, 1) THEN StrLess(Rest(a), Rest(b))
    ELSE CodeUnit(Ch(a, 1)) < CodeUnit(Ch(b, 1))

StrLeq(a, b) == ~StrLess(b, a)

IsDigit(c) == c \in {"0", "1", "2", "3", "4", "5", "6", "7", "8", "9"}

\* \s, among the characters the model uses: space, tab and newline.
IsSpace(c) == c \in {" ", "\t", "\n"}

RECURSIVE TrimStart(_)
TrimStart(s) ==
    IF s # "" /\ IsSpace(Ch(s, 1)) THEN TrimStart(Rest(s)) ELSE s

RECURSIVE TrimEnd(_)
TrimEnd(s) ==
    IF s # "" /\ IsSpace(Ch(s, Len(s)))
    THEN TrimEnd(SubSeq(s, 1, Len(s) - 1)) ELSE s

\* String.prototype.trim
Trim(s) == TrimEnd(TrimStart(s))

UpperCase == "ABCDEFGHIJKLMNOPQRSTUVWXYZ"
LowerCase == "abcdefghijklmnopqrstuvwxyz"

LowerChar(c) ==
    IF \E k \in 1..Len(UpperCase) : Ch(UpperCase, k) = c
    THEN Ch(LowerCase, CHOOSE k \in 1..Len(UpperCase) : Ch(UpperCase, k) = c)
    ELSE c

\* String.prototype.toLowerCase
RECURSIVE ToLowerCase(_)
ToLowerCase(s) ==
    IF s = "" THEN "" ELSE LowerChar(Ch(s, 1)) \o ToLowerCase(Rest(s))

\* String.prototype.includes
Includes(h, n) ==
    \E k \in 0..(Len(h) - Len(n)) : SubSeq(h, k + 1, k + Len(n)) = n

StartsWith(s, p) == Len(s) >= Len(p) /\ SubSeq(s, 1, Len(p)) = p

\* path.basename of a file path: what follows the last separator.
RECURSIVE Basename(_)
Basename(p) ==
    IF \E k \in 1..Len(p) : Ch(p, k) = "/"
    THEN Basename(SubSeq(p, (CHOOSE k \in 1..Len(p) : Ch(p, k) = "/") + 1, Len(p)))
    ELSE p

\* path.join of a directory and a relative name without dots or slashes at
\* the seam.
PathJoin(a, b) == a \o "/" \o b

-----------------------------------------------------------------------------
(* The helpers of cli.ts. *)

\* The process's environment: os.homedir(), PHOTO_MCP_BASE_DIR (unset) and
\* the local date.
HomeDir == "/home/u"
BaseDirEnv == ""

todayKST == "2024-02-01"

\* The result of a failed parse.
Null == [null |-> TRUE]

AllDigits(s, from, to) == \A k \in from..to : IsDigit(Ch(s, k))

\* /^(\d{4}):(\d{2}):(\d{2})[ T](\d{2}):(\d{2})(?::(\d{2}))?$/
MatchesExifPattern(dto) ==
    /\ Len(dto) \in {16, 19}
    /\ AllDigits(dto, 1, 4) /\ Ch(dto, 5) = ":"
    /\ AllDigits(dto, 6, 7) /\ Ch(dto, 8) = ":"
    /\ AllDigits(dto, 9, 10) /\ Ch(dto, 11) \in {" ", "T"}
    /\ AllDigits(dto, 12, 13) /\ Ch(dto, 14) = ":"
    /\ AllDigits(dto, 15, 16)
    /\ Len(dto) = 19 => Ch(dto, 17) = ":" /\ AllDigits(dto, 18, 19)

parseExifDateTime(dto) ==
    IF ~MatchesExifPattern(dto) THEN Null
    ELSE [dateStr |-> SubSeq(dto, 1, 4) \o "-" \o SubSeq(dto, 6, 7) \o "-"
                      \o SubSeq(dto, 9, 10),
          hhmm |-> SubSeq(dto, 12, 13) \o ":" \o SubSeq(dto, 15, 16)]

\* Each run of whitespace becomes one hyphen.
RECURSIVE ReplaceSpaceRuns(_)
ReplaceSpaceRuns(s) ==
    IF s = "" THEN ""
    ELSE IF IsSpace(Ch(s, 1)) THEN "-" \o ReplaceSpaceRuns(TrimStart(s))
    ELSE Ch(s, 1) \o ReplaceSpaceRuns(Rest(s))

ReservedChars == {"/", "\\", ":", "*", "?", "\"", "<", ">", "|"}

RECURSIVE ReplaceReserved(_)
ReplaceReserved(s) ==
    IF s = "" THEN ""
    ELSE (IF Ch(s, 1) \in ReservedChars THEN "-" ELSE Ch(s, 1))
         \o ReplaceReserved(Rest(s))

\* CollapseHyphens for /--/g: each pair of hyphens becomes one, pair by pair.
RECURSIVE CollapseHyphenPairs(_)
CollapseHyphenPairs(s) ==
    IF s = "" THEN ""
    ELSE IF Ch(s, 1) = "-" /\ Len(s) >= 2 /\ Ch(s, 2) = "-"
    THEN "-" \o CollapseHyphenPairs(SubSeq(s, 3, Len(s)))
    ELSE Ch(s, 1) \o CollapseHyphenPairs(Rest(s))

\* Each run of two or more hyphens becomes one hyphen.
RECURSIVE CollapseHyphens(_)
CollapseHyphens(s) ==
    IF s = "" THEN ""
    ELSE IF Ch(s, 1) = "-" /\ Len(s) >= 2 /\ Ch(s, 2) = "-"
    THEN CollapseHyphens(Rest(s))
    ELSE Ch(s, 1) \o CollapseHyphens(Rest(s))

promptSlug(s) == CollapseHyphens(ReplaceReserved(ReplaceSpaceRuns(s)))

\* inDateRange without its tests for an absent bound.
inDateRangeUnguarded(dateStr, from, to) ==
    ~StrLess(dateStr, from) /\ ~StrLess(to, dateStr)

inDateRange(dateStr, from, to) ==
    IF from = "" /\ to = "" THEN TRUE
    ELSE IF from # "" /\ StrLess(dateStr, from) THEN FALSE
    ELSE IF to # "" /\ StrLess(to, dateStr) THEN FALSE
    ELSE TRUE

\* inTimeWindow with <= and >= for < and >: the bounds themselves fall outside.
inTimeWindowExclusive(hhmm, w) ==
    LET from == IF Has(w, "from") THEN w.from ELSE ""
        to == IF Has(w, "to") THEN w.to ELSE ""
    IN  IF from = "" /\ to = "" THEN TRUE
        ELSE IF from # "" /\ ~StrLess(from, hhmm) THEN FALSE
        ELSE IF to # "" /\ ~StrLess(hhmm, to) THEN FALSE
        ELSE TRUE

\* from and to are the window's keys, each a string or undefined (absent).
inTimeWindow(hhmm, w) ==
    LET from == IF Has(w, "from") THEN w.from ELSE ""
        to == IF Has(w, "to") THEN w.to ELSE ""
    IN  IF from = "" /\ to = "" THEN TRUE
        ELSE IF from # "" /\ StrLess(hhmm, from) THEN FALSE
        ELSE IF to # "" /\ StrLess(to, hhmm) THEN FALSE
        ELSE TRUE

\* vals: the candidates in order, "" for an undefined one.
RECURSIVE firstNonEmpty(_)
firstNonEmpty(vals) ==
    IF vals = <<>> THEN ""
    ELSE IF Head(vals) # "" /\ Trim(Head(vals)) # "" THEN Head(vals)
    ELSE firstNonEmpty(Tail(vals))

\* v: a string, "" for undefined.
norm(v) == ToLowerCase(Trim(v))

expandTilde(p) ==
    LET v == Trim(p)
    IN  IF v = "" THEN ""
        ELSE IF v = "~" THEN HomeDir
        ELSE IF StartsWith(v, "~/") THEN PathJoin(HomeDir, SubSeq(v, 3, Len(v)))
        ELSE v

\* The great-circle distance of line 74 to 82, in millimetres, at the
\* coordinates the model uses (1e-4 degree): the values the source's formula
\* gives in IEEE double arithmetic, rounded to the millimetre.
haversineMeters(lat1, lon1, lat2, lon2) ==
    LET dLat == lat2 - lat1
        dLon == lon2 - lon1
    IN  CASE dLat = 0 /\ dLon = 0 -> 0
          [] lat1 = 375512 /\ dLat = 36 /\ dLon = 0 -> 400302
          [] lat1 = 375512 /\ dLat = 54 /\ dLon = 0 -> 600453
          [] lat1 = 375512 /\ dLat = 0 /\ dLon = 45 -> 396704
          [] lat1 = 375512 /\ lon1 = 1269882 /\ lat2 = 375500 /\ lon2 = 1250000
               -> 175270634

-----------------------------------------------------------------------------
(* The input schema (zod), lines 22 to 45. *)

TopKeys == {"base_dir", "output_root", "original_prompt", "copy_mode",
            "date_range", "time_of_day", "iso", "artist", "camera", "location",
            "altitude"}

\* A .strict() object: no key outside allowed.
Strict(o, allowed) == DOMAIN o \subseteq allowed

\* FilterAndCopyInput.parse(args) succeeds.
ValidInput(a) ==
    /\ Strict(a, TopKeys)
    /\ Has(a, "original_prompt")
    /\ Has(a, "base_dir") => Len(a.base_dir) >= 1
    /\ Has(a, "copy_mode") => a.copy_mode = "copy"
    /\ Has(a, "date_range") => Strict(a.date_range, {"from", "to"})
    /\ Has(a, "time_of_day") => Strict(a.time_of_day, {"from", "to"})
    /\ Has(a, "iso") => Strict(a.iso, {"min", "max"})
    /\ Has(a, "camera") => Strict(a.camera, {"make", "model"})
    /\ Has(a, "altitude") => Strict(a.altitude, {"min", "max"})
    /\ Has(a, "location") =>
         /\ Strict(a.location, {"bbox", "center", "radius_m"})
         /\ Has(a.location, "bbox") => Len(a.location.bbox) = 4
         /\ Has(a.location, "center") => DOMAIN a.location.center = {"lat", "lon"}
         /\ Has(a.location, "radius_m") => a.location.radius_m > 0

-----------------------------------------------------------------------------
(* The filter dimensions of filterAndCopy's loop body, lines 218 to 335.   *)
(* Each gives the reason the loop logs when it skips the record, or "ok".  *)

\* o[k] || ""
StrOr(o, k) == IF Has(o, k) THEN o[k] ELSE ""

\* TimestampCheck with the unparsable timestamp skipped but not counted.
TimestampCheckUncounted(it) ==
    IF ~Has(it, "DateTimeOriginal") \/ it.DateTimeOriginal = ""
    THEN "skip missing time"
    ELSE IF parseExifDateTime(it.DateTimeOriginal) = Null THEN "skip date range"
    ELSE "ok"

\* lines 218 to 228: the capture timestamp
TimestampCheck(it) ==
    IF ~Has(it, "DateTimeOriginal") \/ it.DateTimeOriginal = ""
    THEN "skip missing time"
    ELSE IF parseExifDateTime(it.DateTimeOriginal) = Null THEN "skip parse time"
    ELSE "ok"

\* lines 231 to 236
DateRangeCheck(parsed, inp) ==
    LET from == IF Has(inp, "date_range") THEN StrOr(inp.date_range, "from") ELSE ""
        to == IF Has(inp, "date_range") THEN StrOr(inp.date_range, "to") ELSE ""
    IN  IF ~inDateRange(parsed.dateStr, from, to) THEN "skip date range" ELSE "ok"

\* lines 237 to 240
TimeOfDayCheck(parsed, inp) ==
    IF Has(inp, "time_of_day") /\ ~inTimeWindow(parsed.hhmm, inp.time_of_day)
    THEN "skip time window" ELSE "ok"

\* lines 242 to 253
IsoCheck(it, inp) ==
    IF Has(inp, "iso") /\ Has(it, "ISO")
    THEN IF Has(inp.iso, "min") /\ it.ISO < inp.iso.min THEN "skip iso min"
         ELSE IF Has(inp.iso, "max") /\ it.ISO > inp.iso.max THEN "skip iso max"
         ELSE "ok"
    ELSE "ok"

\* lines 255 to 262
ArtistCheck(it, inp) ==
    IF Has(inp, "artist") /\ inp.artist # "" /\ Trim(inp.artist) # ""
    THEN LET a == norm(firstNonEmpty(<<StrOr(it, "Artist"), StrOr(it, "Creator"),
                                       StrOr(it, "ByLine")>>))
             needle == norm(inp.artist)
         IN  IF a = "" \/ ~Includes(a, needle) THEN "skip artist" ELSE "ok"
    ELSE "ok"

\* lines 264 to 279
CameraCheck(it, inp) ==
    IF Has(inp, "camera")
    THEN IF /\ StrOr(inp.camera, "make") # ""
            /\ ~Includes(norm(StrOr(it, "Make")), norm(inp.camera.make))
         THEN "skip camera make"
         ELSE IF /\ StrOr(inp.camera, "model") # ""
                 /\ ~Includes(norm(StrOr(it, "Model")), norm(inp.camera.model))
         THEN "skip camera model"
         ELSE "ok"
    ELSE "ok"

InBbox(it, bbox) ==
    /\ it.GPSLongitude >= bbox[1] /\ it.GPSLongitude <= bbox[3]
    /\ it.GPSLatitude >= bbox[2] /\ it.GPSLatitude <= bbox[4]

WithinRadius(it, loc) ==
    ~(haversineMeters(loc.center.lat, loc.center.lon, it.GPSLatitude,
                      it.GPSLongitude) > loc.radius_m)

\* LocationCheck with the bbox tested first when both are given.
LocationCheckBboxFirst(it, inp) ==
    IF Has(inp, "location")
    THEN LET loc == inp.location
             hasBbox == Has(loc, "bbox")
             hasCenterRadius == Has(loc, "center") /\ Has(loc, "radius_m")
                                /\ loc.radius_m # 0
         IN  IF hasBbox \/ hasCenterRadius
             THEN IF ~Has(it, "GPSLatitude") \/ ~Has(it, "GPSLongitude")
                  THEN "skip gps missing"
                  ELSE IF hasBbox
                  THEN IF ~InBbox(it, loc.bbox) THEN "skip gps outside bbox"
                       ELSE "ok"
                  ELSE IF ~WithinRadius(it, loc) THEN "skip gps outside radius"
                  ELSE "ok"
             ELSE "ok"
    ELSE "ok"

\* lines 281 to 304
LocationCheck(it, inp) ==
    IF Has(inp, "location")
    THEN LET loc == inp.location
             hasBbox == Has(loc, "bbox")
             hasCenterRadius == Has(loc, "center") /\ Has(loc, "radius_m")
                                /\ loc.radius_m # 0
         IN  IF hasBbox \/ hasCenterRadius
             THEN IF ~Has(it, "GPSLatitude") \/ ~Has(it, "GPSLongitude")
                  THEN "skip gps missing"
                  ELSE IF hasCenterRadius
                  THEN IF ~WithinRadius(it, loc) THEN "skip gps outside radius"
                       ELSE "ok"
                  ELSE IF ~InBbox(it, loc.bbox) THEN "skip gps outside bbox"
                  ELSE "ok"
             ELSE "ok"
    ELSE "ok"

\* EffectiveAltitude without the sign of the reference flag.
EffectiveAltitudeUnsigned(it) == it.GPSAltitude

\* lines 311 to 314
EffectiveAltitude(it) ==
    IF Has(it, "GPSAltitudeRef") /\ it.GPSAltitudeRef = 1
    THEN -it.GPSAltitude ELSE it.GPSAltitude

\* lines 306 to 323
AltitudeCheck(it, inp) ==
    IF Has(inp, "altitude") /\ (Has(inp.altitude, "min") \/ Has(inp.altitude, "max"))
    THEN IF ~Has(it, "GPSAltitude") THEN "skip altitude missing"
         ELSE IF Has(inp.altitude, "min") /\ EffectiveAltitude(it) < inp.altitude.min
         THEN "skip altitude min"
         ELSE IF Has(inp.altitude, "max") /\ EffectiveAltitude(it) > inp.altitude.max
         THEN "skip altitude max"
         ELSE "ok"
    ELSE "ok"

\* SourceCheck with a missing source counted as a record without metadata.
SourceCheckCounted(it, fs) ==
    IF it.SourceFile = "" THEN "skip empty src"
    ELSE IF it.SourceFile \notin fs THEN "skip parse time"
    ELSE "ok"

\* lines 325 to 335: the source path and fsp.stat
SourceCheck(it, fs) ==
    IF it.SourceFile = "" THEN "skip empty src"
    ELSE IF it.SourceFile \notin fs THEN "skip stat error"
    ELSE "ok"

\* The first of the checks, in order, that does not give "ok".
RECURSIVE FirstReason(_)
FirstReason(rs) ==
    IF rs = <<>> THEN "ok"
    ELSE IF Head(rs) # "ok" THEN Head(rs)
    ELSE FirstReason(Tail(rs))

\* lines 231 to 323: the dimensions of the filter, for a parsed timestamp
FilterReason(it, inp) ==
    LET parsed == parseExifDateTime(it.DateTimeOriginal)
    IN  FirstReason(<<DateRangeCheck(parsed, inp), TimeOfDayCheck(parsed, inp),
                      IsoCheck(it, inp), ArtistCheck(it, inp),
                      CameraCheck(it, inp), LocationCheck(it, inp),
                      AltitudeCheck(it, inp)>>)

\* lines 218 to 335: what one iteration decides before it copies
Verdict(it, inp, fs) ==
    IF TimestampCheck(it) # "ok" THEN TimestampCheck(it)
    ELSE IF FilterReason(it, inp) # "ok" THEN FilterReason(it, inp)
    ELSE SourceCheck(it, fs)

SkippedReasons == {"skip missing time", "skip parse time"}

-----------------------------------------------------------------------------
(* The tool handler (lines 379 to 397) and filterAndCopy (lines 202 to     *)
(* 344), one action per stretch of code between two awaits.                *)

\* line 349
baseDirFlag ==
    IF expandTilde(BaseDirEnv) # "" THEN expandTilde(BaseDirEnv)
    ELSE PathJoin(HomeDir, "Pictures")

\* line 343: the report filterAndCopy returns.
MatchReport ==
    [scanned |-> scanned, matched |-> matched, skipped_missing_meta |-> skipped,
     output_dir |-> outDir, files |-> files]

\* ErrorResult with the counters reached so far attached.
ErrorResultPartial(msg) ==
    [kind |-> "error", text |-> "error: " \o msg, structuredContent |-> MatchReport]

\* The handler's isError result for a caught error message.
ErrorResult(msg) == [kind |-> "error", text |-> "error: " \o msg]

\* { ...parsed, base_dir: baseDir }
WithBaseDir(a, baseDir) ==
    [k \in DOMAIN a \cup {"base_dir"} |-> IF k = "base_dir" THEN baseDir ELSE a[k]]

\* path.join(outRoot, `${todayKST()}_${promptSlug(input.original_prompt)}`)
OutDirOf(outRoot, prompt) == PathJoin(outRoot, todayKST \o "_" \o promptSlug(prompt))

\* path.join(outDir, path.basename(src))
DstOf(dir, src) == PathJoin(dir, Basename(src))

\* PushFile that loses the path.
PushFileDropped(fl, dst) == fl

\* PushFile at the front of the list (unshift).
PushFileFront(fl, dst) == <<dst>> \o fl

\* files.push(dst)
PushFile(fl, dst) == Append(fl, dst)

\* The text of a report: the four values it formats.
ReportResult(rep) ==
    [kind |-> "report",
     text |-> <<rep.scanned, rep.matched, rep.skipped_missing_meta, rep.output_dir>>,
     structuredContent |-> rep]

\* lines 380 to 388 and 203 to 206: the handler parses its arguments, resolves
\* the directories and enters filterAndCopy, up to its first await.
Handler ==
    /\ pc = "start"
    /\ IF ~ValidInput(args)
       THEN \* FilterAndCopyInput.parse throws outside the try block
            /\ pc' = "done"
            /\ result' = [kind |-> "throw", text |-> "ZodError"]
            /\ UNCHANGED <<input, outDir>>
       ELSE LET baseDir == IF expandTilde(StrOr(args, "base_dir")) # ""
                           THEN expandTilde(StrOr(args, "base_dir"))
                           ELSE baseDirFlag
                outRoot0 == IF expandTilde(StrOr(args, "output_root")) # ""
                            THEN expandTilde(StrOr(args, "output_root"))
                            ELSE PathJoin(HomeDir, "Desktop")
                outRoot == IF outRoot0 = "" THEN baseDir ELSE outRoot0
            IN  IF baseDir = ""
                THEN /\ pc' = "done"
                     /\ result' = [kind |-> "error", text |-> "error: base_dir required"]
                     /\ UNCHANGED <<input, outDir>>
                ELSE IF Trim(baseDir) = ""
                THEN /\ pc' = "done"
                     /\ result' = ErrorResult("base_dir required")
                     /\ UNCHANGED <<input, outDir>>
                ELSE /\ pc' = "mkdir"
                     /\ input' = WithBaseDir(args, baseDir)
                     /\ outDir' = OutDirOf(outRoot, args.original_prompt)
                     /\ UNCHANGED result
    /\ UNCHANGED <<args, tree, srcFs, items, i, scanned, matched, skipped, files,
                   copied, dirs, outFs, lastLog>>

\* line 207: fsp.mkdir makes the output directory, or throws.
Mkdir ==
    /\ pc = "mkdir"
    /\ \/ /\ dirs' = dirs \cup {outDir}
          /\ pc' = "index"
          /\ UNCHANGED result
       \/ /\ pc' = "done"
          /\ result' = ErrorResult("EACCES: permission denied, mkdir")
          /\ UNCHANGED dirs
    /\ UNCHANGED <<args, tree, srcFs, input, outDir, items, i, scanned, matched,
                   skipped, files, copied, outFs, lastLog>>

\* lines 210 to 214: exiftoolIndex returns the records of the tree, or throws;
\* for a tree without photos exiftool prints nothing, which line 189 to 191
\* turn into an error.
Index ==
    /\ pc = "index"
    /\ \/ /\ tree # <<>>
          /\ items' = tree
          /\ pc' = "loop"
          /\ UNCHANGED result
       \/ /\ pc' = "done"
          /\ result' = ErrorResult("exiftool error")
          /\ UNCHANGED items
    /\ UNCHANGED <<args, tree, srcFs, input, outDir, i, scanned, matched,
                   skipped, files, copied, dirs, outFs, lastLog>>

\* lines 216 to 336: one iteration of the loop, up to the await of copyOne.
Iterate ==
    /\ pc = "loop"
    /\ i < Len(items)
    /\ LET it == items[i + 1]
           v == Verdict(it, input, srcFs)
       IN  /\ i' = i + 1
           /\ scanned' = scanned + 1
           /\ lastLog' = v
           /\ skipped' = IF v \in SkippedReasons THEN skipped + 1 ELSE skipped
           /\ pc' = IF v = "ok" THEN "copy" ELSE "loop"
    /\ UNCHANGED <<args, tree, srcFs, input, outDir, items, matched, files,
                   copied, dirs, outFs, result>>

\* lines 336 to 339: copyOne writes the destination, or throws; a throw leaves
\* filterAndCopy and is caught by the handler (lines 393 to 395).
CopyOne ==
    /\ pc = "copy"
    /\ LET src == items[i].SourceFile
           dst == DstOf(outDir, src)
       IN  \/ /\ outFs' = [d \in DOMAIN outFs \cup {dst} |->
                             IF d = dst THEN src ELSE outFs[d]]
              /\ files' = PushFile(files, dst)
              /\ matched' = matched + 1
              /\ copied' = Append(copied, i)
              /\ pc' = "loop"
              /\ UNCHANGED result
           \/ /\ pc' = "done"
              /\ result' = ErrorResult("ENOSPC: no space left on device, copyfile")
              /\ UNCHANGED <<outFs, files, matched, copied>>
    /\ UNCHANGED <<args, tree, srcFs, input, outDir, items, i, scanned, skipped,
                   dirs, lastLog>>

\* lines 342 to 343 and 389 to 392: the loop is over, the handler returns the
\* report.
Return ==
    /\ pc = "loop"
    /\ i = Len(items)
    /\ pc' = "done"
    /\ result' = ReportResult(MatchReport)
    /\ UNCHANGED <<args, tree, srcFs, input, outDir, items, i, scanned, matched,
                   skipped, files, copied, dirs, outFs, lastLog>>

Next == Handler \/ Mkdir \/ Index \/ Iterate \/ CopyOne \/ Return

-----------------------------------------------------------------------------
(* The states a run starts from: the arguments of the call, the tree of    *)
(* photos and the files that can be read.                                  *)

NoResult == [kind |-> "none"]

\* The lists of at most n records made of a metadata of metas and a source
\* path of paths, no path twice (exiftool lists each file once).
RecordLists(n, paths, metas) ==
    UNION { { [k \in 1..len |-> ms[k] @@ [SourceFile |-> ps[k]]] :
                ps \in {q \in [1..len -> paths] :
                          \A a, b \in 1..len : a # b => q[a] # q[b]},
                ms \in [1..len -> metas] } : len \in 0..n }

PathsOf(t) == {t[k].SourceFile : k \in 1..Len(t)} \ {""}

\* All of a tree's files can be read, or all but one.
ReadableSets(t) == {PathsOf(t)} \cup {PathsOf(t) \ {p} : p \in PathsOf(t)}

InitWith(argsSet, trees) ==
    /\ args \in argsSet
    /\ tree \in trees
    /\ srcFs \in ReadableSets(tree)
    /\ pc = "start"
    /\ input = [original_prompt |-> ""]
    /\ outDir = ""
    /\ items = <<>>
    /\ i = 0
    /\ scanned = 0 /\ matched = 0 /\ skipped = 0 /\ files = <<>>
    /\ copied = <<>>
    /\ dirs = {}
    /\ outFs = <<>>
    /\ lastLog = ""
    /\ result = NoResult

\* Source paths: two files of one name in two directories, a third file, and
\* a record without a path.
MainPaths == {"a/x.jpg", "b/x.jpg", "a/y.jpg", ""}

\* Metadata: a good timestamp, none, and a good one with an ISO outside the
\* range MainArgs asks for.
MainMetas ==
    {[DateTimeOriginal |-> "2024:01:15 10:00:00", ISO |-> 100],
     [ISO |-> 100],
     [DateTimeOriginal |-> "2024:01:15T10:00", ISO |-> 800]}

MainArgs ==
    {[original_prompt |-> "Seoul trip: day 1!"],
     [original_prompt |-> "iso", iso |-> [min |-> 50, max |-> 400],
      base_dir |-> "~/photos", output_root |-> "/out"],
     [original_prompt |-> "x", bogus |-> 1],
     [iso |-> [min |-> 50]],
     [original_prompt |-> "x", base_dir |-> " "]}

Init == InitWith(MainArgs, RecordLists(MaxItems, MainPaths, MainMetas))

Spec == Init /\ [][Next]_vars

\* Timestamps: two that fit the pattern, none, and five that do not fit it;
\* the first has an ISO outside the range StampArgs asks for.
StampMetas ==
    {[DateTimeOriginal |-> "2024:01:15 10:00:00", ISO |-> 800],
     [DateTimeOriginal |-> "2024:01:15T10:00"],
     [ISO |-> 100],
     [DateTimeOriginal |-> ""],
     [DateTimeOriginal |-> "2024-01-15 10:00:00"],
     [DateTimeOriginal |-> "2024:01:15 10:00:00+09:00"],
     [DateTimeOriginal |-> "2024:01:15 10:00:"],
     [DateTimeOriginal |-> "2024:01:15_10:00"]}

StampPaths == {"a/x.jpg", "a/y.jpg"}

StampArgs ==
    {[original_prompt |-> "all"],
     [original_prompt |-> "iso", iso |-> [max |-> 400]]}

InitStamp == InitWith(StampArgs, RecordLists(MaxItems, StampPaths, StampMetas))

\* The passes over records that differ in their capture timestamp.
SpecStamp == InitStamp /\ [][Next]_vars

OnePath == {"a/x.jpg"}

\* Capture times of day, and the bounds of the windows asked for.
TimeMetas ==
    {[DateTimeOriginal |-> "2024:01:15 " \o t \o ":00"] :
       t \in {"00:00", "08:30", "12:00", "23:59"}}

TimeBounds == {"", "08:30", "12:00", "22:00"}

TimeWindows ==
    {[from |-> f, to |-> t] : f \in TimeBounds, t \in TimeBounds}
    \cup {[from |-> f] : f \in TimeBounds} \cup {[to |-> t] : t \in TimeBounds}
    \cup {<<>>}

TimeArgs == {[original_prompt |-> "time", time_of_day |-> w] : w \in TimeWindows}

InitTime == InitWith(TimeArgs, RecordLists(1, OnePath, TimeMetas))

\* The passes over one record, for every time of day and window.
SpecTime == InitTime /\ [][Next]_vars

Stamped == [DateTimeOriginal |-> "2024:02:10 13:00:00"]

\* Altitudes with and without the reference flag, and the ranges asked for.
AltMetas ==
    {Stamped} \cup {Stamped @@ [GPSAltitudeRef |-> 1]}
    \cup {Stamped @@ [GPSAltitude |-> a] : a \in {-10, 0, 10, 50}}
    \cup {Stamped @@ [GPSAltitude |-> a, GPSAltitudeRef |-> r] :
            a \in {-10, 0, 10, 50}, r \in {0, 1}}

AltMins == {-5, 0, 10}
AltMaxs == {0, 10, 40}

AltRanges ==
    {[min |-> lo, max |-> hi] : lo \in AltMins, hi \in AltMaxs}
    \cup {[min |-> lo] : lo \in AltMins} \cup {[max |-> hi] : hi \in AltMaxs}
    \cup {<<>>}

AltArgs ==
    {[original_prompt |-> "alt"]}
    \cup {[original_prompt |-> "alt", altitude |-> r] : r \in AltRanges}

InitAlt == InitWith(AltArgs, RecordLists(1, OnePath, AltMetas))

\* The passes over one record, for every altitude and range.
SpecAlt == InitAlt /\ [][Next]_vars

\* Places (latitude, longitude in 1e-4 degree): the centre, 400 m and 600 m
\* north of it, 397 m east of it, and one 175 km west of it.
Centre == [lat |-> 375512, lon |-> 1269882]

GeoPlaces ==
    {<<375512, 1269882>>, <<375548, 1269882>>, <<375566, 1269882>>,
     <<375512, 1269927>>, <<375500, 1250000>>}

GeoMetas ==
    {Stamped, Stamped @@ [GPSLatitude |-> 375548]}
    \cup {Stamped @@ [GPSLatitude |-> g[1], GPSLongitude |-> g[2]] : g \in GeoPlaces}

\* Radii in millimetres: 500 m, the distance of the place 400 m north to the
\* millimetre, and one millimetre less.
GeoRadii == {500000, 400302, 400301}

\* [minLon, minLat, maxLon, maxLat]: a box around all places but the western
\* one, and a box around the place 600 m north only.
GeoBoxes ==
    {<<1267600, 374000, 1271800, 377000>>, <<1269800, 375560, 1270000, 375600>>}

GeoLocations ==
    {[center |-> Centre, radius_m |-> r, bbox |-> b] : r \in GeoRadii, b \in GeoBoxes}
    \cup {[center |-> Centre, radius_m |-> r] : r \in GeoRadii}
    \cup {[bbox |-> b] : b \in GeoBoxes}
    \cup {[center |-> Centre, bbox |-> b] : b \in GeoBoxes}
    \cup {[center |-> Centre], [radius_m |-> 500000], <<>>}

GeoArgs == {[original_prompt |-> "geo", location |-> l] : l \in GeoLocations}

InitGeo == InitWith(GeoArgs, RecordLists(1, OnePath, GeoMetas))

\* The passes over one record, for every place and location filter.
SpecGeo == InitGeo /\ [][Next]_vars

\* A filter with all seven dimensions, and every filter with some of them.
DimKeys == {"date_range", "time_of_day", "iso", "artist", "camera", "location",
            "altitude"}

FullFilter ==
    [original_prompt |-> "dims",
     date_range |-> [from |-> "2024-02-01", to |-> "2024-02-29"],
     time_of_day |-> [from |-> "12:00"],
     iso |-> [min |-> 200],
     artist |-> "Kim",
     camera |-> [make |-> "canon", model |-> "EOS"],
     location |-> [bbox |-> <<1269800, 375560, 1270000, 375600>>],
     altitude |-> [min |-> 0]]

Without(o, keys) == [k \in DOMAIN o \ keys |-> o[k]]

DimArgs == {Without(FullFilter, DimKeys \ d) : d \in SUBSET DimKeys}

\* A record every dimension of FullFilter lets through, seven that one
\* dimension each excludes, one with a timestamp only and one without.
PassesAll ==
    [DateTimeOriginal |-> "2024:02:10 13:00:00", ISO |-> 400,
     Creator |-> " Jin KIM ", Make |-> "Canon", Model |-> "Canon EOS R5",
     GPSLatitude |-> 375566, GPSLongitude |-> 1269882, GPSAltitude |-> 10]

DimMetas ==
    {PassesAll,
     [PassesAll EXCEPT !.DateTimeOriginal = "2024:03:01 13:00:00"],
     [PassesAll EXCEPT !.DateTimeOriginal = "2024:02:10 11:59:00"],
     [PassesAll EXCEPT !.ISO = 100],
     [PassesAll EXCEPT !.Creator = "Lee"],
     [PassesAll EXCEPT !.Model = "Z6"],
     [PassesAll EXCEPT !.GPSLatitude = 375548],
     PassesAll @@ [GPSAltitudeRef |-> 1],
     [DateTimeOriginal |-> "2024:01:15 10:00:00"],
     [ISO |-> 400]}

InitDims == InitWith(DimArgs, RecordLists(1, OnePath, DimMetas))

\* The passes over one record, for every subset of the filter's dimensions.
SpecDims == InitDims /\ [][Next]_vars

\* Prompts: every string of at most MaxPromptLen characters among a letter,
\* the hyphen, two kinds of whitespace and two reserved characters, and three
\* longer ones with all nine reserved characters.
SlugAlphabet == {"a", "-", " ", "\t", "/", ":"}

RECURSIVE StringsUpTo(_)
StringsUpTo(n) ==
    IF n = 0 THEN {""}
    ELSE StringsUpTo(n - 1)
         \cup {str \o c : str \in StringsUpTo(n - 1), c \in SlugAlphabet}

SlugPrompts ==
    StringsUpTo(MaxPromptLen)
    \cup {"Seoul trip: day 1!", "/\\:*?\"<>|", "a \n\t b<-->c|"}

SlugArgs == {[original_prompt |-> q] : q \in SlugPrompts}

InitSlug == InitWith(SlugArgs, RecordLists(1, OnePath, {Stamped}))

\* The passes over one record, for every prompt.
SpecSlug == InitSlug /\ [][Next]_vars

-----------------------------------------------------------------------------
(* Properties of a pass.                                                   *)

Range(q) == {q[k] : k \in 1..Len(q)}

Done == pc = "done"

Reported == Done /\ result.kind = "report"

CopyErrorText == "error: ENOSPC: no space left on device, copyfile"

\* The pass was aborted by a failed copy.
CopyFailed == Done /\ result.kind # "none" /\ result.text = CopyErrorText

\* C1: the counters obey matched = length(files) and
\* scanned >= matched + skipped_missing_meta after every iteration of the
\* loop, and so does every report returned, whose scanned is the number of
\* records the extraction supplied.
C1_ReportCounts ==
    /\ matched = Len(files)
    /\ scanned >= matched + skipped
    /\ Reported =>
         LET rep == result.structuredContent
         IN  /\ rep.matched = Len(rep.files)
             /\ rep.scanned >= rep.matched + rep.skipped_missing_meta
             /\ rep.scanned = Len(tree)

C1_Witness ==
    /\ Reported
    /\ result.structuredContent.matched >= 1
    /\ result.structuredContent.skipped_missing_meta >= 1
    /\ result.structuredContent.scanned >
         result.structuredContent.matched
           + result.structuredContent.skipped_missing_meta

\* C2: whatever step of an invocation fails, the handler returns an isError
\* result with a text, never a report; structuredContent is returned only
\* when the whole pass succeeded.
C2_FailureIsErrorResult ==
    Done =>
      /\ result.kind \in {"error", "report"}
      /\ result.kind = "report" =>
           /\ ValidInput(args) /\ outDir \in dirs /\ items = tree
           /\ i = Len(items) /\ Len(copied) = matched
      /\ Has(result, "structuredContent") => result.kind = "report"

\* C3: when a copy fails, no later record is evaluated or copied (the run is
\* over with the failing record the last one scanned), every file copied
\* before is still in the output directory, and the caller gets an error
\* without a report.
C3_CopyFailureAborts ==
    CopyFailed =>
      /\ ~ENABLED Next
      /\ scanned = i /\ lastLog = "ok"
      /\ \A k \in Range(copied) : k < i
      /\ \A k \in 1..Len(copied) :
           DstOf(outDir, items[copied[k]].SourceFile) \in DOMAIN outFs
      /\ Range(files) \subseteq DOMAIN outFs
      /\ result.kind = "error"
      /\ DOMAIN result = {"kind", "text"}

C3_Witness == CopyFailed /\ Len(copied) >= 1 /\ i < Len(items)

\* The pattern YYYY:MM:DD[ T]HH:MM[:SS], digit for digit.
StampTemplates == {"dddd:dd:ddsdd:dd", "dddd:dd:ddsdd:dd:dd"}

FitsTemplate(str, t) ==
    /\ Len(str) = Len(t)
    /\ \A k \in 1..Len(t) :
         CASE Ch(t, k) = "d" -> IsDigit(Ch(str, k))
           [] Ch(t, k) = "s" -> Ch(str, k) \in {" ", "T"}
           [] OTHER -> Ch(str, k) = Ch(t, k)

UsableStamp(it) ==
    /\ Has(it, "DateTimeOriginal")
    /\ \E t \in StampTemplates : FitsTemplate(it.DateTimeOriginal, t)

\* C4: in a completed pass no record whose timestamp is missing or off the
\* pattern was copied, and skipped_missing_meta is exactly the number of
\* those records.
C4_SkippedIsBadStamps ==
    Reported =>
      /\ \A k \in 1..Len(items) : ~UsableStamp(items[k]) => k \notin Range(copied)
      /\ result.structuredContent.skipped_missing_meta =
           Cardinality({k \in 1..Len(items) : ~UsableStamp(items[k])})

C4_Witness ==
    /\ Reported
    /\ \E k \in 1..Len(items) : ~UsableStamp(items[k])
    /\ \E k \in 1..Len(items) :
         UsableStamp(items[k]) /\ k \notin Range(copied)

\* C6: records are taken one at a time in the order of the extraction: no
\* record is evaluated while a copy is pending, and files lists the
\* destinations in the order of their records in the input.
C6_InInputOrder ==
    /\ scanned = i
    /\ pc = "copy" => ~ENABLED Iterate /\ \A k \in Range(copied) : k < i
    /\ Len(files) = Len(copied)
    /\ \A k \in 1..Len(copied) :
         /\ files[k] = DstOf(outDir, items[copied[k]].SourceFile)
         /\ \A j \in 1..(k - 1) : copied[j] < copied[k]
    /\ Reported => result.structuredContent.files = files

C6_Witness ==
    /\ Reported
    /\ Len(result.structuredContent.files) >= 2
    /\ result.structuredContent.files[1] # result.structuredContent.files[2]

\* The next record passes every dimension of the filter and its source is
\* not there (or its path is empty).
NextSourceMissing ==
    /\ pc = "loop" /\ i < Len(items)
    /\ TimestampCheck(items[i + 1]) = "ok"
    /\ FilterReason(items[i + 1], input) = "ok"
    /\ items[i + 1].SourceFile \notin srcFs

\* C7: a record that passes the filter and whose source is missing is not
\* copied and adds nothing to files, matched or skipped_missing_meta, only
\* to scanned; the pass goes on with the following records.
C7_MissingSourceContinues ==
    [][NextSourceMissing =>
         /\ scanned' = scanned + 1
         /\ UNCHANGED <<files, matched, skipped, copied, outFs, result>>
         /\ pc' = "loop"
         /\ i' = i + 1]_vars

C7_Witness ==
    /\ Len(copied) >= 1
    /\ \E k \in 1..Len(items) :
         /\ k < copied[Len(copied)]
         /\ TimestampCheck(items[k]) = "ok"
         /\ FilterReason(items[k], input) = "ok"
         /\ items[k].SourceFile \notin srcFs

-----------------------------------------------------------------------------
(* Properties of the filter's dimensions, on the record the loop has just  *)
(* evaluated: items[i], with lastLog what the iteration decided.           *)

Evaluated == i >= 1

SourceReasons == {"skip empty src", "skip stat error"}

\* The skips of each dimension.
DimReasons ==
    [date_range |-> {"skip date range"},
     time_of_day |-> {"skip time window"},
     iso |-> {"skip iso min", "skip iso max"},
     artist |-> {"skip artist"},
     camera |-> {"skip camera make", "skip camera model"},
     location |-> {"skip gps missing", "skip gps outside radius",
                   "skip gps outside bbox"},
     altitude |-> {"skip altitude missing", "skip altitude min",
                   "skip altitude max"}]

\* The record got through every dimension of the filter.
PassedFilter == lastLog \in SourceReasons \cup {"ok"}

\* The order in which the loop body tests the dimensions.
DimOrder == <<"date_range", "time_of_day", "iso", "artist", "camera", "location",
              "altitude">>

\* The loop body got as far as testing dimension d on the record, and d let
\* it through.
Reached(d) ==
    /\ lastLog \notin SkippedReasons
    /\ \A k \in 1..Len(DimOrder) :
         (\E m \in (k + 1)..Len(DimOrder) : DimOrder[m] = d)
           => lastLog \notin DimReasons[DimOrder[k]]

Passed(d) == Reached(d) /\ lastLog \notin DimReasons[d]

\* C5: a dimension that is absent from the filter never excludes a record;
\* a record the filter includes is still included by the filter without any
\* one of its dimensions; and with no dimension at all a completed pass
\* copies every record with a usable timestamp and a readable source.
C5_AbsentNeverExcludes ==
    Evaluated =>
      /\ \A d \in DimKeys : lastLog \in DimReasons[d] => Has(input, d)
      /\ PassedFilter =>
           \A d \in DimKeys :
             FilterReason(items[i], Without(input, {d})) = "ok"
      /\ Reported /\ DOMAIN input \cap DimKeys = {} =>
           \A k \in 1..Len(items) :
             UsableStamp(items[k]) /\ items[k].SourceFile \in srcFs
               => k \in Range(copied)

C5_Witness ==
    /\ Reported
    /\ DimKeys \subseteq DOMAIN input
    /\ copied = <<1>>

\* The distance of the evaluated record from the centre asked for.
DistanceFromCentre ==
    haversineMeters(input.location.center.lat, input.location.center.lon,
                    items[i].GPSLatitude, items[i].GPSLongitude)

\* The evaluated record has coordinates, and the filter a centre with a
\* radius as well as a bbox.
BothGeoTests ==
    /\ Evaluated
    /\ Has(input, "location")
    /\ {"center", "radius_m", "bbox"} \subseteq DOMAIN input.location
    /\ {"GPSLatitude", "GPSLongitude"} \subseteq DOMAIN items[i]

\* C8: with a centre and radius as well as a bbox, a record with coordinates
\* passes the location dimension exactly when its distance from the centre
\* is at most the radius, wherever the bbox lies.
C8_RadiusOverBbox ==
    BothGeoTests /\ Reached("location") =>
      (Passed("location") <=> DistanceFromCentre <= input.location.radius_m)

\* On the radius to the millimetre and outside the bbox: copied.
C8_Witness ==
    /\ BothGeoTests
    /\ DistanceFromCentre = input.location.radius_m
    /\ ~InBbox(items[i], input.location.bbox)
    /\ copied = <<1>>

\* The altitude of the evaluated record, below sea level when the flag is 1.
SignedAltitude ==
    IF Has(items[i], "GPSAltitudeRef") /\ items[i].GPSAltitudeRef = 1
    THEN 0 - items[i].GPSAltitude
    ELSE items[i].GPSAltitude

AltitudeAsked ==
    /\ Evaluated
    /\ Has(input, "altitude")
    /\ DOMAIN input.altitude # {}

\* C9: when the altitude filter gives a min or a max, a record passes the
\* altitude dimension exactly when it has an altitude and its signed altitude
\* is at least the min given and at most the max given.
C9_SignedAltitudeInRange ==
    AltitudeAsked /\ Reached("altitude") =>
      (Passed("altitude") <=>
         /\ Has(items[i], "GPSAltitude")
         /\ Has(input.altitude, "min") => SignedAltitude >= input.altitude.min
         /\ Has(input.altitude, "max") => SignedAltitude <= input.altitude.max)

\* Altitude 10 with flag 1 is excluded by min 0.
C9_Witness ==
    /\ AltitudeAsked
    /\ Has(items[i], "GPSAltitude") /\ items[i].GPSAltitude = 10
    /\ Has(items[i], "GPSAltitudeRef") /\ items[i].GPSAltitudeRef = 1
    /\ Has(input.altitude, "min") /\ input.altitude.min = 0
    /\ lastLog = "skip altitude min"

\* a <= b in lexicographic order of the code units.
LexLeq(a, b) ==
    \/ Len(a) <= Len(b) /\ SubSeq(b, 1, Len(a)) = a
    \/ \E k \in 1..Len(a) :
         /\ k <= Len(b)
         /\ SubSeq(a, 1, k - 1) = SubSeq(b, 1, k - 1)
         /\ CodeUnit(Ch(a, k)) < CodeUnit(Ch(b, k))

\* The HH:MM of the evaluated record's timestamp.
HourMinute == SubSeq(items[i].DateTimeOriginal, 12, 16)

\* The evaluated record has a usable timestamp and the window both bounds.
BothTimeBounds ==
    /\ Evaluated
    /\ UsableStamp(items[i])
    /\ Has(input, "time_of_day")
    /\ DOMAIN input.time_of_day = {"from", "to"}

InWindow ==
    /\ LexLeq(input.time_of_day.from, HourMinute)
    /\ LexLeq(HourMinute, input.time_of_day.to)

\* C10, as claimed: with both bounds of the window given, a record passes
\* the time dimension exactly when from <= hhmm <= to, so that a window with
\* from > to excludes every record.
C10_WindowAsClaimed ==
    BothTimeBounds /\ Reached("time_of_day") =>
      /\ Passed("time_of_day") <=> InWindow
      /\ ~LexLeq(input.time_of_day.from, input.time_of_day.to)
           => ~Passed("time_of_day")

\* C10, amended: the same for a window whose two bounds are not empty
\* strings.
C10_WindowNonEmptyBounds ==
    /\ BothTimeBounds /\ Reached("time_of_day")
    /\ input.time_of_day.from # "" /\ input.time_of_day.to # ""
    =>
      /\ Passed("time_of_day") <=> InWindow
      /\ ~LexLeq(input.time_of_day.from, input.time_of_day.to)
           => ~Passed("time_of_day")

\* A record taken exactly at the lower bound of the window, copied.
C10_Witness ==
    /\ BothTimeBounds
    /\ input.time_of_day.from = HourMinute
    /\ input.time_of_day.to # ""
    /\ copied = <<1>>

-----------------------------------------------------------------------------
(* Properties of the output directory's name.                              *)

\* The handler has entered filterAndCopy and named the output directory.
Named == pc # "start" /\ result.kind # "throw"

\* What precedes the slug in outDir when no output_root is given.
SlugPrefix == PathJoin(PathJoin(HomeDir, "Desktop"), todayKST \o "_")

\* The slug within the name of the output directory.
SlugOfRun == SubSeq(outDir, Len(SlugPrefix) + 1, Len(outDir))

\* No whitespace, none of / \ : * ? " < > |, no two hyphens in a row.
CleanSlug(str) ==
    /\ \A k \in 1..Len(str) :
         Ch(str, k) \notin {" ", "\t", "\n", "/", "\\", ":", "*", "?", "\"", "<",
                            ">", "|"}
    /\ \A k \in 1..(Len(str) - 1) : ~(Ch(str, k) = "-" /\ Ch(str, k + 1) = "-")

\* C11: the slug of every prompt has no whitespace, none of the nine
\* reserved characters and no two consecutive hyphens; a prompt already in
\* that form is its own slug, and the slug of a slug is the slug.
C11_SlugCleanAndIdempotent ==
    Named /\ ~Has(args, "output_root") =>
      /\ SubSeq(outDir, 1, Len(SlugPrefix)) = SlugPrefix
      /\ CleanSlug(SlugOfRun)
      /\ CleanSlug(args.original_prompt) => SlugOfRun = args.original_prompt
      /\ promptSlug(SlugOfRun) = SlugOfRun

\* A prompt whose whitespace and reserved characters meet hyphens.
C11_Witness ==
    /\ Named
    /\ args.original_prompt = "a \n\t b<-->c|"
    /\ SlugOfRun = "a-b-c-"
    /\ outDir \in dirs

-----------------------------------------------------------------------------
(* Properties of the destinations.                                         *)

\* C12: within a pass no destination is written twice: the entries of files
\* are pairwise distinct, and when the report is returned every record
\* counted in matched has its own copy in the output directory.
C12_NoDestinationTwice ==
    /\ \A j, k \in 1..Len(files) : j # k => files[j] # files[k]
    /\ Reported =>
         /\ Cardinality(DOMAIN outFs) = result.structuredContent.matched
         /\ \A k \in Range(copied) :
              outFs[DstOf(outDir, items[k].SourceFile)] = items[k].SourceFile

====
